---- MODULE Spec2Model ----
(***************************************************************************)
(* Model of src/linux/mediaCheck.py: the MonitorMediaServer health checker *)
(* (check_service, check_all, run) and its pure helpers obfuscate,         *)
(* obfuscate_url and format_uptime.                                        *)
(*                                                                         *)
(* Text is modelled as a sequence of tokens.  Keys, host names and port    *)
(* numbers are sequences of one-character tokens, so that slicing and      *)
(* masking act on characters; fixed pieces of text are single tokens.      *)
(***************************************************************************)
EXTENDS Integers, Sequences, FiniteSets, TLC

VARIABLES
    pc,             \* position of the main thread inside run()/check_all()
    daemon,         \* args.daemon
    debug,          \* args.debug (logger level DEBUG when TRUE, INFO otherwise)
    interval,       \* args.interval
    args,           \* the four URL/token flags of the command line (None when omitted)
    environ,        \* the four URL/token variables of the environment
    url_radarr, url_sonarr, apikey_radarr, apikey_sonarr,  \* self.* configuration
    radarr_result,  \* check_all local radarr_result
    sonarr_result,  \* check_all local sonarr_result
    response,       \* outcome of the last requests.get that came back
    cycles,         \* number of check_all() calls begun
    history,        \* the values check_all() returned, oldest first
    requests,       \* HTTP GETs issued since the current cycle began, in order
    emitted,        \* log records written by the last step
    exitCode,       \* process exit status, -1 while running
    cause,          \* why the process ended ("" while running)
    interruptedAt,  \* where the thread was when the interrupt came ("" if none)
    fnArgs,         \* arguments of the helper under test (helper specifications)
    fnOut           \* its result

vars == <<pc, daemon, debug, interval, args, environ, url_radarr, url_sonarr, apikey_radarr,
          apikey_sonarr, radarr_result, sonarr_result, response, cycles,
          history, requests, emitted, exitCode, cause, interruptedAt, fnArgs,
          fnOut>>

cfgVars == <<daemon, debug, interval, args, environ, url_radarr, url_sonarr,
             apikey_radarr, apikey_sonarr>>

fnVars == <<fnArgs, fnOut>>

(***************************************************************************)
(* Bounds of the model.                                                    *)
(***************************************************************************)
MaxCycles == 3      \* daemon cycles explored
MaxKeyLen == 5      \* longest key given to obfuscate in SpecObfuscate
MaxShow == 2        \* largest show given to obfuscate in SpecObfuscate
MaxHostLen == 4     \* longest host name in SpecObfuscateUrl
MaxElapsedSteps == 120  \* elapsed times explored in SpecUptime

(***************************************************************************)
(* Text helpers.                                                           *)
(***************************************************************************)
Mask == "*"

\* '*' * n
Stars(n) == [i \in 1..(IF n > 0 THEN n ELSE 0) |-> Mask]

\* Python s[:k] for k >= 0
Prefix(s, k) == SubSeq(s, 1, IF k < Len(s) THEN k ELSE Len(s))

\* Python s[-k:] for k >= 0; -0 is 0, so s[-0:] is the whole of s
Suffix(s, k) ==
    IF k = 0 \/ k >= Len(s) THEN s ELSE SubSeq(s, Len(s) - k + 1, Len(s))

\* Python s[k:] for k >= 0
DropFirst(s, k) == SubSeq(s, k + 1, Len(s))

\* x occurs in msg as a contiguous run of tokens
Contains(msg, x) ==
    /\ Len(x) > 0
    /\ \E i \in 1..Len(msg) :
          /\ i + Len(x) - 1 <= Len(msg)
          /\ SubSeq(msg, i, i + Len(x) - 1) = x

(***************************************************************************)
(* obfuscate (lines 37-42).                                                *)
(***************************************************************************)
Obfuscate(s, show) ==
    IF Len(s) = 0 \/ Len(s) <= show * 2
    THEN (IF Len(s) > 0 THEN Stars(Len(s)) ELSE Stars(3))
    ELSE Prefix(s, show) \o Stars(Len(s) - show * 2) \o Suffix(s, show)

(***************************************************************************)
(* urlparse, as far as obfuscate_url and requests use it.  A URL text is   *)
(* given by its pieces: scheme, host, port digits (<<>> when the text has  *)
(* no port) and path; UrlText puts the text together.                      *)
(***************************************************************************)
DigitVal(c) == CHOOSE d \in 0..9 : ToString(d) = c

RECURSIVE DigitsToInt(_)
\* int(port, 10)
DigitsToInt(ds) ==
    IF Len(ds) = 0 THEN 0
    ELSE 10 * DigitsToInt(SubSeq(ds, 1, Len(ds) - 1)) + DigitVal(ds[Len(ds)])

RECURSIVE IntToDigits(_)
\* str(port) for port >= 0
IntToDigits(n) ==
    IF n < 10 THEN <<ToString(n)>>
    ELSE IntToDigits(n \div 10) \o <<ToString(n % 10)>>

LowerChar(c) ==
    CASE c = "A" -> "a"
      [] c = "B" -> "b"
      [] c = "H" -> "h"
      [] c = "M" -> "m"
      [] OTHER -> c

\* parsed.hostname: the host in lower case ("" stands for None, see line 52)
HostnameOf(u) == [i \in 1..Len(u.host) |-> LowerChar(u.host[i])]

\* parsed.port raises ValueError for a port outside 0..65535
PortRaises(u) == Len(u.port) > 0 /\ DigitsToInt(u.port) > 65535

\* parsed.port: -1 stands for None
PortOf(u) == IF Len(u.port) = 0 THEN -1 ELSE DigitsToInt(u.port)

UrlText(u) ==
    (IF u.scheme = "" THEN <<>> ELSE <<u.scheme, "://">>)
    \o u.host
    \o (IF Len(u.port) = 0 THEN <<>> ELSE <<":">> \o u.port)
    \o u.path

(***************************************************************************)
(* obfuscate_url (lines 44-70).                                            *)
(***************************************************************************)
ObHost(host, show_ip) ==
    IF Len(host) <= show_ip * 2
    THEN Stars(Len(host))
    ELSE Prefix(host, show_ip) \o Stars(Len(host) - show_ip * 2)
         \o Suffix(host, show_ip)

\* lines 59-66: "if port:" is false for None and for 0
ObPort(port) ==
    IF port = -1 \/ port = 0 THEN <<>>
    ELSE LET port_str == IntToDigits(port) IN
         IF Len(port_str) <= 3
         THEN <<":">> \o Stars(Len(port_str))
         ELSE <<":">> \o Stars(3) \o DropFirst(port_str, 3)

ObfuscateUrl(u, show_ip) ==
    IF PortRaises(u) THEN Stars(3)
    ELSE <<u.scheme, "://">> \o ObHost(HostnameOf(u), show_ip)
         \o ObPort(PortOf(u)) \o u.path

(***************************************************************************)
(* format_uptime (lines 72-86).  A startTime value is [kind, at]: kind     *)
(* "iso" is a text strptime accepts, denoting the instant `at` (seconds);  *)
(* "bad" is a text it rejects, "number" a JSON number (strptime raises     *)
(* TypeError), "empty" the empty text and "absent" a missing key.          *)
(***************************************************************************)
\* f"{n:02}"
Fmt02(n) == IF n >= 0 /\ n < 10 THEN "0" \o ToString(n) ELSE ToString(n)

\* (now - start_time).days and .seconds: timedelta keeps 0 <= seconds < 86400
TimedeltaDays(elapsed) == elapsed \div 86400
TimedeltaSeconds(elapsed) == elapsed % 86400

\* a format_uptime that takes the minutes from all the seconds of the day
MutFormatUptime(st, now) ==
    IF st.kind # "iso" THEN "unknown"
    ELSE LET elapsed == now - st.at
             days == TimedeltaDays(elapsed)
             hours == TimedeltaSeconds(elapsed) \div 3600
             minutes == TimedeltaSeconds(elapsed) \div 60
         IN  IF days > 0
             THEN ToString(days) \o " days, " \o Fmt02(hours) \o ":" \o Fmt02(minutes)
             ELSE Fmt02(hours) \o ":" \o Fmt02(minutes)

FormatUptime(st, now) ==
    IF st.kind # "iso" THEN "unknown"
    ELSE LET elapsed == now - st.at
             days == TimedeltaDays(elapsed)
             hours == TimedeltaSeconds(elapsed) \div 3600
             remainder == TimedeltaSeconds(elapsed) % 3600
             minutes == remainder \div 60
         IN  IF days > 0
             THEN ToString(days) \o " days, " \o Fmt02(hours) \o ":" \o Fmt02(minutes)
             ELSE Fmt02(hours) \o ":" \o Fmt02(minutes)


(***************************************************************************)
(* Values of the program.                                                  *)
(***************************************************************************)
DefaultShow == 4        \* obfuscate(s, show=4)
DefaultShowIp == 3      \* obfuscate_url(url, show_ip=3, ...)

StatusPath == <<"/api/v3/system/status">>

\* Python None as a start_time
NoneTime == [kind |-> "None", at |-> 0]

\* (False, None, None, None)
Down == [up |-> FALSE, version |-> "None", start_time |-> NoneTime, uptime |-> "None"]

\* a local of check_all that holds no result
Unset == [up |-> FALSE, version |-> "unset", start_time |-> NoneTime, uptime |-> "unset"]

\* the compiled default "" of url_radarr / url_sonarr (lines 12-13)
EmptyUrl == [scheme |-> "", host |-> <<>>, port |-> <<>>, path |-> <<>>]

GoodUrl == [scheme |-> "http", host |-> <<"m", "e", "d", "i", "a", "b", "o", "x">>,
            port |-> <<"7", "8", "7", "8">>, path |-> <<>>]

GoodKey == <<"k", "1", "2", "3", "4", "5", "6", "7", "8", "z">>

\* a key with leading white space, which requests refuses as a header value
SpaceKey == <<" ", "1", "2", "3", "4", "5", "6", "7", "8", "z">>

\* the scheme mistyped: requests has no adapter for it
TypoUrl == [GoodUrl EXCEPT !.scheme = "htp"]

Urls == {EmptyUrl, GoodUrl, TypoUrl}
Keys == {GoodKey, SpaceKey}
Intervals == {-1, 0, 1}

\* datetime.utcnow(), in whole seconds
Nows == {1000000}

\* f"{url}/api/v3/system/status" (line 90)
ApiUrl(url) == [url EXCEPT !.path = url.path \o StatusPath]

(***************************************************************************)
(* What requests.get does (line 100).  An outcome is an HTTP response or a *)
(* RequestException; `now` is the clock format_uptime reads.               *)
(***************************************************************************)
HttpOutcome(status, json, version, st, now) ==
    [kind |-> "http", status |-> status, json |-> json, version |-> version,
     startTime |-> st, exc |-> "", now |-> now]

ExcOutcome(exc) ==
    [kind |-> "exception", status |-> 0, json |-> "", version |-> "None",
     startTime |-> NoneTime, exc |-> exc, now |-> 0]

\* the startTime values a body can hold; elapsed are the ages of "iso" ones
StartTimes(elapsed, now) ==
    {[kind |-> k, at |-> 0] : k \in {"absent", "empty", "bad", "number"}}
    \cup {[kind |-> "iso", at |-> now - e] : e \in elapsed}

HttpOutcomes(elapsed) ==
    UNION {
      {HttpOutcome(200, "object", v, st, now) :
          v \in {"None", "5.2.0"}, st \in StartTimes(elapsed, now)}
      \cup {HttpOutcome(200, j, "None", NoneTime, now) : j \in {"invalid", "array"}}
      \cup {HttpOutcome(s, "invalid", "None", NoneTime, now) : s \in {404, 500}}
      : now \in Nows }

\* requests prepares the URL, then the headers, before it opens a connection
PossibleOutcomes(url, api_key, elapsed) ==
    IF ApiUrl(url).scheme = "" THEN {ExcOutcome("MissingSchema")}
    ELSE IF ApiUrl(url).scheme \notin {"http", "https"}
    THEN {ExcOutcome("InvalidSchema")}
    ELSE IF Len(api_key) > 0 /\ api_key[1] = " "
    THEN {ExcOutcome("InvalidHeader"), ExcOutcome("InvalidHeaderName")}
    ELSE {ExcOutcome("ConnectionError"), ExcOutcome("ReadTimeout")}
         \cup HttpOutcomes(elapsed)

\* str(apiConnectionError): the text requests gives each exception
\* (InvalidHeader quotes the value since requests 2.28 and named only the
\* header before)
ExcText(exc, url, api_key) ==
    LET api_url == ApiUrl(url) IN
    CASE exc = "MissingSchema" ->
            <<"Invalid URL '">> \o UrlText(api_url)
            \o <<"': No scheme supplied. Perhaps you meant https://">>
            \o UrlText(api_url) \o <<"?">>
      [] exc = "InvalidSchema" ->
            <<"No connection adapters were found for '">> \o UrlText(api_url)
            \o <<"'">>
      [] exc = "InvalidHeader" ->
            <<"Invalid leading whitespace, reserved character(s), or return character(s) in header value: '">>
            \o api_key \o <<"'">>
      [] exc = "InvalidHeaderName" ->
            <<"Invalid return character or leading space in header: X-Api-Key">>
      [] exc = "ConnectionError" ->
            <<"HTTPConnectionPool(host='">> \o HostnameOf(api_url) \o <<"', port=">>
            \o api_url.port \o <<"): Max retries exceeded with url: ">> \o api_url.path
      [] OTHER ->
            <<"HTTPConnectionPool(host='">> \o HostnameOf(api_url) \o <<"', port=">>
            \o api_url.port \o <<"): Read timed out. (read timeout=10)">>

(***************************************************************************)
(* Logging (lines 26-35): a record is written when its level is at least   *)
(* the logger's level.                                                     *)
(***************************************************************************)
LevelNo(l) == CASE l = "DEBUG" -> 10 [] l = "INFO" -> 20 [] OTHER -> 40

LoggerLevel(dbg) == IF dbg THEN "DEBUG" ELSE "INFO"

Rec(level, msg) == [level |-> level, msg |-> msg]

Written(recs, dbg) ==
    SelectSeq(recs, LAMBDA r : LevelNo(r.level) >= LevelNo(LoggerLevel(dbg)))

(***************************************************************************)
(* check_service (lines 88-118).                                           *)
(***************************************************************************)
\* lines 91-96
LogUrl(url, dbg) ==
    IF LevelNo(LoggerLevel(dbg)) <= LevelNo("DEBUG")
    THEN UrlText(ApiUrl(url)) ELSE ObfuscateUrl(ApiUrl(url), DefaultShowIp)

LogKey(api_key, dbg) ==
    IF LevelNo(LoggerLevel(dbg)) <= LevelNo("DEBUG")
    THEN api_key ELSE Obfuscate(api_key, DefaultShow)

\* lines 97 and 99: the records logged before the request
CallRecords(name, url, api_key, dbg) ==
    << Rec("INFO", <<"Calling ", name, " API: ">> \o LogUrl(url, dbg)
                   \o <<" with API key: ">> \o LogKey(api_key, dbg)),
       Rec("DEBUG", <<"Sending GET to ">> \o UrlText(ApiUrl(url))
                    \o <<" with headers {'X-Api-Key': '">> \o api_key \o <<"'}">>) >>

\* data.get("startTime") is used when it is truthy (line 108)
Truthy(st) == st.kind \in {"bad", "number", "iso"}

\* (True, "unknown", None, "unknown")
UnknownUp == [up |-> TRUE, version |-> "unknown", start_time |-> NoneTime,
              uptime |-> "unknown"]

\* a check_service that takes a body it cannot parse for a failed check
MutUpResult(o) ==
    IF o.json = "object"
    THEN [up |-> TRUE,
          version |-> IF o.version = "None" THEN "unknown" ELSE o.version,
          start_time |-> IF o.startTime.kind = "absent" THEN NoneTime ELSE o.startTime,
          uptime |-> IF Truthy(o.startTime)
                     THEN FormatUptime(o.startTime, o.now) ELSE "unknown"]
    ELSE Down

\* lines 105-112: the result of a 200 response
UpResult(o) ==
    IF o.json = "object"
    THEN [up |-> TRUE,
          version |-> IF o.version = "None" THEN "unknown" ELSE o.version,
          start_time |-> IF o.startTime.kind = "absent" THEN NoneTime ELSE o.startTime,
          uptime |-> IF Truthy(o.startTime)
                     THEN FormatUptime(o.startTime, o.now) ELSE "unknown"]
    ELSE UnknownUp

\* a check_service that does not look at the status code
MutServiceResult(o) ==
    IF o.kind = "exception" THEN Down ELSE UpResult(o)

\* the tuple check_service returns for an outcome of the request
ServiceResult(o) ==
    IF o.kind = "exception" THEN Down
    ELSE IF o.status = 200 THEN UpResult(o) ELSE Down

\* lines 101-117: the records logged after the request
ReturnRecords(name, url, api_key, o) ==
    IF o.kind = "exception"
    THEN << Rec("ERROR", <<"Error contacting ", name, ": ">>
                         \o ExcText(o.exc, url, api_key)) >>
    ELSE << Rec("DEBUG", <<"Received response from ", name, " (",
                           ToString(o.status), "): ", "<body>">>) >>
         \o (IF o.status = 200
             THEN << Rec("INFO", <<name, " API call successful.">>) >>
                  \o (IF o.json = "object" THEN <<>>
                      ELSE << Rec("ERROR", <<"Failed to parse ", name,
                                             " status JSON: ", "<error>">>) >>)
             ELSE << Rec("ERROR", <<name, " API call failed, status ",
                                    ToString(o.status), ": ", "<body>">>) >>)

(***************************************************************************)
(* log_result (lines 120-125) and check_all's value (line 132).            *)
(***************************************************************************)
LogResult(service, r) ==
    IF r.up
    THEN Rec("INFO", <<service, " (v", r.version, ") is UP. Started: ",
                       r.start_time.kind, ", Uptime: ", r.uptime>>)
    ELSE Rec("ERROR", <<service, " is DOWN.">>)

\* a check_all that reports the last target only
MutCheckAllResult(r, s) == s.up

CheckAllResult(r, s) == r.up /\ s.up


(***************************************************************************)
(* Configuration (lines 150-165).  A flag or an environment variable is    *)
(* [given, value]: given is FALSE for a flag left out (argparse's default  *)
(* None) and for a variable that is not set.                               *)
(***************************************************************************)
Opt(given, value) == [given |-> given, value |-> value]

\* the compiled default "" of apikey_radarr / apikey_sonarr (lines 14-15)
EmptyKey == <<>>

NoUrl == Opt(FALSE, EmptyUrl)
NoKey == Opt(FALSE, EmptyKey)

\* the flags and the environment with nothing given
NoArgs == [radarr_url |-> NoUrl, sonarr_url |-> NoUrl,
           radarr_token |-> NoKey, sonarr_token |-> NoKey]

NoEnviron == [url_radarr |-> NoUrl, url_sonarr |-> NoUrl,
              apikey_radarr |-> NoKey, apikey_sonarr |-> NoKey]

\* os.getenv(name, default)
Getenv(env, default) == IF env.given THEN env.value ELSE default

\* args.x if args.x else os.getenv(...): None and "" are both false
\* (lines 162-163)
ResolveUrl(cli, env, default) ==
    IF cli.given /\ Len(UrlText(cli.value)) > 0 THEN cli.value
    ELSE Getenv(env, default)

\* lines 164-165
ResolveKey(cli, env, default) ==
    IF cli.given /\ Len(cli.value) > 0 THEN cli.value
    ELSE Getenv(env, default)

(***************************************************************************)
(* The program: run (lines 134-147) calling check_all (lines 127-132).     *)
(***************************************************************************)
\* ages of the startTime values the services report in Spec
MainElapsed == {3725, 90061}

NoResponse == ExcOutcome("")

LoopPcs == {"check_radarr", "radarr_inflight", "check_sonarr", "sonarr_inflight",
            "log_results", "sleeping"}

Init ==
    /\ pc = "start"
    /\ daemon \in BOOLEAN
    /\ debug \in BOOLEAN
    /\ interval \in Intervals
    /\ url_radarr \in Urls
    /\ url_sonarr \in Urls
    /\ apikey_radarr \in Keys
    /\ apikey_sonarr \in Keys
    /\ args = [radarr_url |-> Opt(TRUE, url_radarr),
               sonarr_url |-> Opt(TRUE, url_sonarr),
               radarr_token |-> Opt(TRUE, apikey_radarr),
               sonarr_token |-> Opt(TRUE, apikey_sonarr)]
    /\ environ = NoEnviron
    /\ radarr_result = Unset
    /\ sonarr_result = Unset
    /\ response = NoResponse
    /\ cycles = 0
    /\ history = <<>>
    /\ requests = <<>>
    /\ emitted = <<>>
    /\ exitCode = -1
    /\ cause = ""
    /\ interruptedAt = ""
    /\ fnArgs = <<>>
    /\ fnOut = <<>>

\* run() up to the first check_all() (lines 135-140, 146)
Run ==
    /\ pc = "start"
    /\ pc' = "check_radarr"
    /\ cycles' = 1
    /\ emitted' = Written(IF daemon THEN <<Rec("INFO", <<"Running in daemon mode.">>)>>
                          ELSE <<>>, debug)
    /\ UNCHANGED <<cfgVars, radarr_result, sonarr_result, response, history,
                   requests, exitCode, cause, interruptedAt, fnVars>>

\* check_service up to requests.get (lines 89-100)
CallService(at, name, url, api_key, next) ==
    /\ pc = at
    /\ pc' = next
    /\ requests' = Append(requests, name)
    /\ emitted' = Written(CallRecords(name, url, api_key, debug), debug)
    /\ response' = NoResponse
    /\ UNCHANGED <<cfgVars, radarr_result, sonarr_result, cycles, history,
                   exitCode, cause, interruptedAt, fnVars>>

CallRadarr ==
    CallService("check_radarr", "Radarr", url_radarr, apikey_radarr, "radarr_inflight")

CallSonarr ==
    CallService("check_sonarr", "Sonarr", url_sonarr, apikey_sonarr, "sonarr_inflight")

\* a check_all that gives up the cycle when the first target is down
MutReturnRadarr ==
    /\ pc = "radarr_inflight"
    /\ \E o \in PossibleOutcomes(url_radarr, apikey_radarr, MainElapsed) :
          /\ response' = o
          /\ radarr_result' = ServiceResult(o)
          /\ emitted' = Written(ReturnRecords("Radarr", url_radarr, apikey_radarr, o),
                                debug)
          /\ pc' = IF ServiceResult(o).up THEN "check_sonarr" ELSE "log_results"
    /\ sonarr_result' = Down
    /\ UNCHANGED <<cfgVars, cycles, history, requests, exitCode,
                   cause, interruptedAt, fnVars>>

\* requests.get comes back and check_service returns (lines 100-118)
ReturnRadarr ==
    /\ pc = "radarr_inflight"
    /\ \E o \in PossibleOutcomes(url_radarr, apikey_radarr, MainElapsed) :
          /\ response' = o
          /\ radarr_result' = ServiceResult(o)
          /\ emitted' = Written(ReturnRecords("Radarr", url_radarr, apikey_radarr, o),
                                debug)
    /\ pc' = "check_sonarr"
    /\ UNCHANGED <<cfgVars, sonarr_result, cycles, history, requests, exitCode,
                   cause, interruptedAt, fnVars>>

ReturnSonarr ==
    /\ pc = "sonarr_inflight"
    /\ \E o \in PossibleOutcomes(url_sonarr, apikey_sonarr, MainElapsed) :
          /\ response' = o
          /\ sonarr_result' = ServiceResult(o)
          /\ emitted' = Written(ReturnRecords("Sonarr", url_sonarr, apikey_sonarr, o),
                                debug)
    /\ pc' = "log_results"
    /\ UNCHANGED <<cfgVars, radarr_result, cycles, history, requests, exitCode,
                   cause, interruptedAt, fnVars>>

\* an exit status that forgets the result
MutExitStatus(success) == 0

\* sys.exit(0 if success else 1) (line 147)
ExitStatus(success) == IF success THEN 0 ELSE 1

\* the rest of check_all (lines 130-132), then sys.exit (line 147) or
\* time.sleep (line 141)
LogAndReturn ==
    /\ pc = "log_results"
    /\ emitted' = Written(<<LogResult("Radarr", radarr_result),
                            LogResult("Sonarr", sonarr_result)>>, debug)
    /\ history' = Append(history, CheckAllResult(radarr_result, sonarr_result))
    /\ IF daemon
       THEN /\ pc' = "sleeping"
            /\ UNCHANGED <<exitCode, cause>>
       ELSE /\ pc' = "exited"
            /\ exitCode' = ExitStatus(CheckAllResult(radarr_result, sonarr_result))
            /\ cause' = "exit"
    /\ UNCHANGED <<cfgVars, radarr_result, sonarr_result, response, cycles,
                   requests, interruptedAt, fnVars>>

\* self.check_int: the monitor is built with check_int=args.interval (line 172)
check_int == interval

\* interval = interval or self.check_int (line 135)
SleepLength == IF interval # 0 THEN interval ELSE check_int

\* time.sleep(interval) returns and the loop calls check_all again
\* (lines 139-141)
WakeUp ==
    /\ pc = "sleeping"
    /\ SleepLength >= 0
    /\ cycles < MaxCycles
    /\ pc' = "check_radarr"
    /\ cycles' = cycles + 1
    /\ radarr_result' = Unset
    /\ sonarr_result' = Unset
    /\ response' = NoResponse
    /\ requests' = <<>>
    /\ emitted' = <<>>
    /\ UNCHANGED <<cfgVars, history, exitCode, cause, interruptedAt, fnVars>>

\* time.sleep raises ValueError for a negative length; run has no handler
\* for it, so the interpreter prints the traceback and exits with status 1
SleepRaises ==
    /\ pc = "sleeping"
    /\ SleepLength < 0
    /\ pc' = "exited"
    /\ exitCode' = 1
    /\ cause' = "ValueError"
    /\ emitted' = <<>>
    /\ UNCHANGED <<cfgVars, radarr_result, sonarr_result, response, cycles,
                   history, requests, interruptedAt, fnVars>>

\* a try that covers the sleep alone
MutCatches(d, at) == d /\ at = "sleeping"

\* the try of run (lines 138-144) covers the loop, in daemon mode only
Catches(d, at) == d /\ at \in LoopPcs

\* status of a process ended by a KeyboardInterrupt nobody catches: 1 from
\* interpreters before 3.8, death by SIGINT (130 to a shell) since
UncaughtStatus == {1, 130}

\* SIGINT: KeyboardInterrupt is raised in the main thread wherever it is,
\* a blocking requests.get or time.sleep included (lines 142-144)
Interrupt ==
    /\ pc # "exited"
    /\ pc' = "exited"
    /\ interruptedAt' = pc
    /\ IF Catches(daemon, pc)
       THEN /\ emitted' = Written(<<Rec("INFO", <<"Stopped by user.">>)>>, debug)
            /\ exitCode' = 0
            /\ cause' = "interrupt"
       ELSE /\ emitted' = <<>>
            /\ exitCode' \in UncaughtStatus
            /\ cause' = "uncaught_interrupt"
    /\ UNCHANGED <<cfgVars, radarr_result, sonarr_result, response, cycles,
                   history, requests, fnVars>>

Next ==
    \/ Run
    \/ CallRadarr
    \/ ReturnRadarr
    \/ CallSonarr
    \/ ReturnSonarr
    \/ LogAndReturn
    \/ WakeUp
    \/ SleepRaises
    \/ Interrupt

Spec == Init /\ [][Next]_vars


(***************************************************************************)
(* Properties of the program (specification Spec).                         *)
(***************************************************************************)
\* the check_all of the current cycle has returned
CycleReturned == cycles > 0 /\ Len(history) = cycles

LastReturn == history[Len(history)]

\* the request came back with a failure: an exception or a status but 200
Failed(o) == (o.kind = "exception" /\ o.exc # "") \/ (o.kind = "http" /\ o.status # 200)

Is200(o) == o.kind = "http" /\ o.status = 200

(* C1: the value check_all returns is the conjunction of the up flags of   *)
(* the cycle's two check_service results, Radarr's and Sonarr's.           *)
C1_CheckAllIsConjunction ==
    CycleReturned => (LastReturn = (radarr_result.up /\ sonarr_result.up))

C1_Witness ==
    /\ CycleReturned
    /\ radarr_result.up
    /\ ~sonarr_result.up
    /\ LastReturn = FALSE

C3_DaemonEndsOnlyOnInterrupt ==
    (daemon /\ pc = "exited") => interruptedAt # ""

\* the same for the intervals time.sleep accepts and interrupts inside the loop
C3_FromIntervalZero ==
    (daemon /\ interval >= 0 /\ pc = "exited" /\ interruptedAt # "start") =>
        (cause = "interrupt" /\ exitCode = 0)

(* C4: a failed check (a status other than 200, a transport failure or a   *)
(* timeout) makes check_service return (False, None, None, None) to        *)
(* check_all, which goes on: after a failed Radarr check Sonarr is still   *)
(* requested in the same cycle.                                            *)
C4_FailedCheckReturnsDown ==
    /\ (pc = "check_sonarr" /\ Failed(response)) =>
            (radarr_result = Down /\ exitCode = -1)
    /\ (pc = "log_results" /\ Failed(response)) =>
            (sonarr_result = Down /\ exitCode = -1)
    /\ (pc \in {"sonarr_inflight", "log_results"}) =>
            requests = <<"Radarr", "Sonarr">>

C4_Witness ==
    /\ pc = "sonarr_inflight"
    /\ radarr_result = Down
    /\ requests = <<"Radarr", "Sonarr">>

(* C5: a target is reported up exactly when its request came back with     *)
(* status 200; a 200 whose body is not the expected JSON gives             *)
(* (True, "unknown", None, "unknown"), and with the other target up        *)
(* check_all is true.                                                      *)
C5_UpIff200 ==
    /\ (pc = "check_sonarr") =>
          /\ radarr_result.up = Is200(response)
          /\ (Is200(response) /\ response.json # "object") => radarr_result = UnknownUp
    /\ (pc = "log_results") =>
          /\ sonarr_result.up = Is200(response)
          /\ (Is200(response) /\ response.json # "object") => sonarr_result = UnknownUp
    /\ (CycleReturned /\ Is200(response) /\ response.json # "object"
            /\ radarr_result.up) => LastReturn = TRUE

C5_Witness ==
    /\ CycleReturned
    /\ Is200(response)
    /\ response.json = "invalid"
    /\ sonarr_result = UnknownUp
    /\ LastReturn = TRUE

\* the request URLs of the targets whose URL names a host
SecretUrls ==
    {UrlText(ApiUrl(u)) : u \in {v \in {url_radarr, url_sonarr} : Len(v.host) > 0}}

(* C6: with the logger at INFO no written record, on any path of a check,  *)
(* holds the full request URL of a target verbatim.                        *)
C6_NoUrlVerbatimAtInfo ==
    ~debug =>
        \A i \in 1..Len(emitted) : \A x \in SecretUrls : ~Contains(emitted[i].msg, x)

(* C7, as stated: in daemon mode an interrupt that arrives while a request *)
(* is in flight is caught only between cycles, so when the process stops   *)
(* on it both targets were requested and the cycle is complete.            *)
C7_Original ==
    (daemon /\ pc = "exited" /\ interruptedAt \in {"radarr_inflight", "sonarr_inflight"}) =>
        /\ CycleReturned
        /\ requests = <<"Radarr", "Sonarr">>

(* C7, amended: in daemon mode the interrupt is caught wherever in the     *)
(* loop it arrives, in a request in flight as in the sleep; it ends the    *)
(* cycle at once, with the request in flight abandoned, no later target    *)
(* requested and no result returned, and the process logs the stop and     *)
(* exits 0.                                                                *)
C7_InterruptEndsCycleAtOnce ==
    (daemon /\ pc = "exited" /\ interruptedAt \in LoopPcs) =>
        /\ cause = "interrupt"
        /\ exitCode = 0
        /\ emitted = <<Rec("INFO", <<"Stopped by user.">>)>>
        /\ (interruptedAt = "radarr_inflight") =>
              /\ requests = <<"Radarr">>
              /\ radarr_result = Unset
              /\ ~CycleReturned
        /\ (interruptedAt = "sonarr_inflight") =>
              /\ requests = <<"Radarr", "Sonarr">>
              /\ sonarr_result = Unset
              /\ ~CycleReturned
        /\ (interruptedAt = "sleeping") => CycleReturned

C7_Witness ==
    /\ daemon
    /\ cause = "interrupt"
    /\ interruptedAt = "radarr_inflight"
    /\ requests = <<"Radarr">>
    /\ exitCode = 0


\* within a cycle each target is requested at most once, Radarr first, and
\* Sonarr only after Radarr's check_service has returned
C11_InCycle ==
    /\ requests \in {<<>>, <<"Radarr">>, <<"Radarr", "Sonarr">>}
    /\ (pc = "radarr_inflight") => (requests = <<"Radarr">> /\ radarr_result = Unset)
    /\ (pc = "check_sonarr") => (requests = <<"Radarr">> /\ radarr_result # Unset)
    /\ (pc = "sonarr_inflight") =>
          (requests = <<"Radarr", "Sonarr">> /\ radarr_result # Unset
           /\ sonarr_result = Unset)
    /\ (pc = "log_results" \/ CycleReturned) =>
          (requests = <<"Radarr", "Sonarr">> /\ radarr_result # Unset
           /\ sonarr_result # Unset)

\* a new cycle begins only in daemon mode, out of the sleep of the interval
\* that followed the return of the cycle before, and with no request issued
C11_BetweenCycles ==
    (cycles >= 1 /\ cycles' = cycles + 1) =>
        /\ daemon
        /\ pc = "sleeping"
        /\ SleepLength = interval
        /\ CycleReturned
        /\ pc' = "check_radarr"
        /\ requests' = <<>>

(* C11: every cycle issues one request per target and no more, Radarr's    *)
(* check returning before Sonarr's starts, whatever the result of the      *)
(* other target: a down Radarr neither skips Sonarr's check nor is tried   *)
(* again in the cycle; in daemon mode the next cycle starts only out of    *)
(* the sleep of the interval that follows the cycle.                       *)
C11_OneRequestPerTargetPerCycle ==
    []C11_InCycle /\ [][C11_BetweenCycles]_vars

C11_Witness ==
    /\ daemon
    /\ cycles = 2
    /\ history = <<FALSE>>
    /\ pc = "log_results"
    /\ radarr_result = Down
    /\ sonarr_result.up
    /\ requests = <<"Radarr", "Sonarr">>

(***************************************************************************)
(* The program from the command line on: __main__ (lines 149-175) resolves *)
(* the configuration, builds the monitor and calls run.                    *)
(***************************************************************************)
CliUrls == {NoUrl, Opt(TRUE, EmptyUrl), Opt(TRUE, GoodUrl)}
EnvUrls == {NoUrl, Opt(TRUE, TypoUrl)}
CliKeys == {NoKey, Opt(TRUE, EmptyKey), Opt(TRUE, GoodKey)}
EnvKeys == {NoKey, Opt(TRUE, SpaceKey)}

InitMain ==
    /\ pc = "main"
    /\ daemon \in BOOLEAN
    /\ debug = FALSE
    /\ interval \in {-1, 1}
    /\ args \in [radarr_url : CliUrls, sonarr_url : CliUrls,
                  radarr_token : CliKeys, sonarr_token : CliKeys]
    /\ environ \in [url_radarr : EnvUrls, url_sonarr : EnvUrls,
                     apikey_radarr : EnvKeys, apikey_sonarr : EnvKeys]
    /\ url_radarr = EmptyUrl
    /\ url_sonarr = EmptyUrl
    /\ apikey_radarr = EmptyKey
    /\ apikey_sonarr = EmptyKey
    /\ radarr_result = Unset
    /\ sonarr_result = Unset
    /\ response = NoResponse
    /\ cycles = 0
    /\ history = <<>>
    /\ requests = <<>>
    /\ emitted = <<>>
    /\ exitCode = -1
    /\ cause = ""
    /\ interruptedAt = ""
    /\ fnArgs = <<>>
    /\ fnOut = <<>>

\* lines 159-175, up to the call of run
Main ==
    /\ pc = "main"
    /\ pc' = "start"
    /\ url_radarr' = ResolveUrl(args.radarr_url, environ.url_radarr, EmptyUrl)
    /\ url_sonarr' = ResolveUrl(args.sonarr_url, environ.url_sonarr, EmptyUrl)
    /\ apikey_radarr' = ResolveKey(args.radarr_token, environ.apikey_radarr, EmptyKey)
    /\ apikey_sonarr' = ResolveKey(args.sonarr_token, environ.apikey_sonarr, EmptyKey)
    /\ UNCHANGED <<daemon, debug, interval, args, environ, radarr_result,
                   sonarr_result, response, cycles, history, requests, emitted,
                   exitCode, cause, interruptedAt, fnVars>>

NextMain ==
    \/ Main
    \/ Next

SpecMain == InitMain /\ [][NextMain]_vars

\* __main__ has resolved the settings and built the monitor
Resolved == pc # "main" /\ interruptedAt # "main"

\* the value the claim gives a setting: the flag when supplied, else the
\* environment variable when set, else the compiled default
Claimed(cli, env, default) ==
    IF cli.given THEN cli.value ELSE IF env.given THEN env.value ELSE default

(* C12: once the configuration is resolved, and through every check and    *)
(* cycle after, each of the four settings holds the value of its CLI flag  *)
(* when the flag is supplied, whatever the environment holds, else the     *)
(* environment variable when it is set, else the compiled default.         *)
(* Checked under SpecMain.                                                 *)
C12_CliThenEnvThenDefault ==
    Resolved =>
        /\ url_radarr = Claimed(args.radarr_url, environ.url_radarr, EmptyUrl)
        /\ url_sonarr = Claimed(args.sonarr_url, environ.url_sonarr, EmptyUrl)
        /\ apikey_radarr = Claimed(args.radarr_token, environ.apikey_radarr, EmptyKey)
        /\ apikey_sonarr = Claimed(args.sonarr_token, environ.apikey_sonarr, EmptyKey)

\* a flag supplied with the empty text
SuppliedEmpty ==
    \/ (args.radarr_url.given /\ args.radarr_url.value = EmptyUrl)
    \/ (args.sonarr_url.given /\ args.sonarr_url.value = EmptyUrl)
    \/ (args.radarr_token.given /\ args.radarr_token.value = EmptyKey)
    \/ (args.sonarr_token.given /\ args.sonarr_token.value = EmptyKey)

\* the same when no flag is supplied with the empty text
C12_FromNonEmptyFlags == ~SuppliedEmpty => C12_CliThenEnvThenDefault

\* no step after the resolution changes a setting
C12_SettingsFixed ==
    [][pc # "main" =>
          <<url_radarr, url_sonarr, apikey_radarr, apikey_sonarr>>'
              = <<url_radarr, url_sonarr, apikey_radarr, apikey_sonarr>>]_vars

(***************************************************************************)
(* The helpers on their own: each specification draws the arguments of one *)
(* helper and calls it once.                                               *)
(***************************************************************************)
\* the program at rest
Idle ==
    /\ daemon = FALSE
    /\ debug = FALSE
    /\ interval = 0
    /\ args = NoArgs
    /\ environ = NoEnviron
    /\ url_radarr = EmptyUrl
    /\ url_sonarr = EmptyUrl
    /\ apikey_radarr = <<>>
    /\ apikey_sonarr = <<>>
    /\ radarr_result = Unset
    /\ sonarr_result = Unset
    /\ response = NoResponse
    /\ cycles = 0
    /\ history = <<>>
    /\ requests = <<>>
    /\ emitted = <<>>
    /\ exitCode = -1
    /\ cause = ""
    /\ interruptedAt = ""

progVars == <<cfgVars, radarr_result, sonarr_result, response, cycles, history,
              requests, emitted, exitCode, cause, interruptedAt>>

\* all texts over an alphabet, up to a length
TextsUpTo(alphabet, n) == UNION {[1..k -> alphabet] : k \in 0..n}

\* the same without the empty text
NamesUpTo(alphabet, n) == UNION {[1..k -> alphabet] : k \in 1..n}

InitObfuscate ==
    /\ Idle
    /\ pc = "call"
    /\ fnArgs \in [s : TextsUpTo({"a", "b"}, MaxKeyLen), show : 0..MaxShow]
    /\ fnOut = <<>>

CallObfuscate ==
    /\ pc = "call"
    /\ pc' = "returned"
    /\ fnOut' = Obfuscate(fnArgs.s, fnArgs.show)
    /\ UNCHANGED <<progVars, fnArgs>>

SpecObfuscate == InitObfuscate /\ [][CallObfuscate]_vars

\* port texts: none, zero, leading zero, three digits and fewer, more
PortTexts ==
    {<<>>, <<"0">>, <<"8", "0">>, <<"0", "8", "0">>, <<"4", "4", "3">>,
     <<"7", "8", "7", "8">>, <<"6", "5", "5", "3", "5">>, <<"7", "0", "0", "0", "0">>}

InitObfuscateUrl ==
    /\ Idle
    /\ pc = "call"
    /\ fnArgs \in [u : [scheme : {"http"},
                        host : NamesUpTo({"h", "M"}, MaxHostLen),
                        port : PortTexts,
                        path : {<<>>, <<"/radarr", "/api">>}],
                   show_ip : 1..MaxShow]
    /\ fnOut = <<>>

CallObfuscateUrl ==
    /\ pc = "call"
    /\ pc' = "returned"
    /\ fnOut' = ObfuscateUrl(fnArgs.u, fnArgs.show_ip)
    /\ UNCHANGED <<progVars, fnArgs>>

SpecObfuscateUrl == InitObfuscateUrl /\ [][CallObfuscateUrl]_vars

\* ages of the startTime values: a grid of steps of 1789 s from two steps
\* in the future, and the edges of minute, hour, day and hundred days
WideElapsed ==
    {k * 1789 : k \in -2..MaxElapsedSteps}
    \cup {-1, 1, 59, 60, 3599, 3600, 86399, 86400, 86460, 863999, 864000, 8640000}

InitCheckService ==
    /\ Idle
    /\ pc = "call"
    /\ fnArgs \in HttpOutcomes(WideElapsed)
                  \cup {ExcOutcome("ConnectionError"), ExcOutcome("ReadTimeout")}
    /\ fnOut = Unset

\* check_service from the return of requests.get (lines 100-118)
ReturnCheckService ==
    /\ pc = "call"
    /\ pc' = "returned"
    /\ fnOut' = ServiceResult(fnArgs)
    /\ UNCHANGED <<progVars, fnArgs>>

SpecCheckService == InitCheckService /\ [][ReturnCheckService]_vars

(***************************************************************************)
(* Properties of the helpers.                                              *)
(***************************************************************************)
\* every character of out is the mask
AllMasked(out) == \A i \in 1..Len(out) : out[i] = Mask

\* out is s with all but the first n and the last n characters masked
KeepsEnds(out, s, n) ==
    /\ Len(out) = Len(s)
    /\ \A i \in 1..Len(s) :
          out[i] = (IF i <= n \/ i > Len(s) - n THEN s[i] ELSE Mask)

(* C8: obfuscate(key, show) keeps the first show and the last show         *)
(* characters of a key longer than 2*show and masks every character in     *)
(* between, the length unchanged; a key of length at most 2*show is masked *)
(* in full.  Checked under SpecObfuscate.                                  *)
C8_ObfuscateKeepsEndsOnly ==
    pc = "returned" =>
        IF Len(fnArgs.s) > 2 * fnArgs.show
        THEN KeepsEnds(fnOut, fnArgs.s, fnArgs.show)
        ELSE AllMasked(fnOut)

\* the same for the values of show from 1 on
C8_FromShowOne ==
    (pc = "returned" /\ fnArgs.show >= 1) => C8_ObfuscateKeepsEndsOnly

\* the result of obfuscate_url holds a port part, ":" and what follows
HasPortPart(out) == \E i \in 1..Len(out) : out[i] = ":"

(* C9: an explicit port in the URL (here one urlparse accepts, 0..65535)   *)
(* always yields a port part in the result of obfuscate_url.  Checked      *)
(* under SpecObfuscateUrl.                                                 *)
C9_ExplicitPortIsRendered ==
    (pc = "returned" /\ Len(fnArgs.u.port) > 0 /\ ~PortRaises(fnArgs.u)) =>
        HasPortPart(fnOut)

\* the claim's rendering of a port: the first three digits masked, the
\* others shown
ClaimedPort(port) ==
    IF Len(port) = 0 THEN <<>>
    ELSE <<":">> \o Stars(IF Len(port) < 3 THEN Len(port) ELSE 3) \o DropFirst(port, 3)

\* the claim's rendering of a host
ClaimedHost(host, n) ==
    IF Len(host) <= 2 * n THEN Stars(Len(host))
    ELSE [i \in 1..Len(host) |-> IF i <= n \/ i > Len(host) - n THEN host[i] ELSE Mask]

\* the whole rendering C9 describes
C9_WholeRendering ==
    pc = "returned" =>
        fnOut = <<fnArgs.u.scheme, "://">> \o ClaimedHost(fnArgs.u.host, fnArgs.show_ip)
                \o ClaimedPort(fnArgs.u.port) \o fnArgs.u.path

\* "HH" and "MM" of the claim: exactly two digits
TwoDigits(n) == ToString(n \div 10) \o ToString(n % 10)

ClaimedUptime(elapsed) ==
    LET days == elapsed \div 86400
        hh == (elapsed % 86400) \div 3600
        mm == (elapsed % 3600) \div 60
    IN  IF days > 0
        THEN ToString(days) \o " days, " \o TwoDigits(hh) \o ":" \o TwoDigits(mm)
        ELSE TwoDigits(hh) \o ":" \o TwoDigits(mm)

(* C10: for a 200 response whose body holds a well-formed startTime the    *)
(* uptime is "{days} days, HH:MM" when days > 0 and "HH:MM" otherwise,     *)
(* with days = elapsed div 86400, HH = (elapsed mod 86400) div 3600 in     *)
(* 00..23 and MM = (elapsed mod 3600) div 60 in 00..59, two digits each,   *)
(* for elapsed = now - startTime in whole seconds; when startTime is       *)
(* absent or cannot be parsed the uptime is "unknown" and the target is    *)
(* up.  Checked under SpecCheckService.                                    *)
C10_UptimeFormat ==
    (pc = "returned" /\ Is200(fnArgs) /\ fnArgs.json = "object") =>
        LET st == fnArgs.startTime
            elapsed == fnArgs.now - st.at
        IN  /\ fnOut.up
            /\ (st.kind = "iso") =>
                  /\ fnOut.uptime = ClaimedUptime(elapsed)
                  /\ (elapsed % 86400) \div 3600 \in 0..23
                  /\ (elapsed % 3600) \div 60 \in 0..59
            /\ (st.kind # "iso") => fnOut.uptime = "unknown"

C10_Witness ==
    /\ pc = "returned"
    /\ Is200(fnArgs)
    /\ fnArgs.json = "object"
    /\ fnArgs.startTime.kind = "iso"
    /\ fnArgs.now - fnArgs.startTime.at = 100 * 1789
    /\ fnOut.up
    /\ fnOut.uptime = "2 days, 01:41"


====
